---- MODULE Spec2Model ----
(***************************************************************************)
(* Model of the notebook "streaming-stock-data-analysis-setup.py": the     *)
(* bootstrap of the Delta table stockDailyPrices_delta and the while-loop  *)
(* that replays the source price data into it, daysAtOnce dates at a time. *)
(*                                                                         *)
(* Dates are the days 1..MaxDate of one month: the year and month prefix   *)
(* of every '%Y-%m-%d' string is the same and is left out, the day is the  *)
(* zero-padded pair of digits strftime produces.  A source row is the pair *)
(* <<price_date, ticker>>.  The Delta engine is an external collaborator:  *)
(* an INSERT either appends all selected rows or raises and appends none.  *)
(***************************************************************************)
EXTENDS Integers, Sequences, FiniteSets, Bags, TLC

MaxDate == 11

MaxDaysAtOnce == 3

MinDaysAtOnce == 0 - 1

MaxBatches == MaxDate + 2

SleepSeconds == 7

VARIABLES source, storage, metastore, prior, datelist, datelist_len,
          daysAtOnce, i, price_date_min, price_date_max, pc,
          inserted, printed, slept

vars == <<source, storage, metastore, prior, datelist, datelist_len,
          daysAtOnce, i, price_date_min, price_date_max, pc,
          inserted, printed, slept>>

Dates == 1..MaxDate

Absent == [exists |-> FALSE, schema |-> "none", rows |-> EmptyBag]

NoDate == 0

SourceSchema == "price"

(* the tickers quoted on a date: the parquet file holds one or two rows per date *)
TickersOn(d) == IF d % 2 = 1 THEN {"A", "B"} ELSE {"A"}

RowsOfDates(ds) == {<<d, t>> : d \in ds, t \in {"A", "B"}} \cap
                   {r \in Dates \X {"A", "B"} : r[2] \in TickersOn(r[1])}

(* what may lie at deltaPricePath before the notebook runs *)
PriorStorages == {Absent, [exists |-> TRUE, schema |-> "legacy", rows |-> SetToBag({<<1, "Z">>})]}

(* ---------------- pure helpers ---------------- *)

Min(S) == CHOOSE x \in S : \A y \in S : x <= y

Max(S) == CHOOSE x \in S : \A y \in S : x >= y

RECURSIVE SortedDescending(_)
(* the distinct dates with "order by price_date desc" *)
SortedDescending(S) == IF S = {} THEN <<>>
                       ELSE <<Max(S)>> \o SortedDescending(S \ {Max(S)})

RECURSIVE SortedDistinct(_)
(* select distinct price_date ... order by price_date *)
SortedDistinct(S) == IF S = {} THEN <<>>
                     ELSE <<Min(S)>> \o SortedDistinct(S \ {Min(S)})

DistinctDates(rows) == {r[1] : r \in rows}

(* strftime without zero padding ('%-d') *)
StrftimeUnpadded(d) == IF d < 10 THEN <<d>> ELSE <<d \div 10, d % 10>>

(* date.strftime('%Y-%m-%d'): the zero-padded day *)
Strftime(d) == <<d \div 10, d % 10>>

(* the column value rendered as a string for the comparison with a literal *)
DateToString(d) == <<d \div 10, d % 10>>

(* lexicographic order of two strings *)
RECURSIVE StrLeq(_, _)
StrLeq(s, t) == IF s = <<>> THEN TRUE
                ELSE IF t = <<>> THEN FALSE
                ELSE IF s[1] < t[1] THEN TRUE
                ELSE IF s[1] > t[1] THEN FALSE
                ELSE StrLeq(Tail(s), Tail(t))

(* select f.* from stockDailyPrices f where f.price_date >= lo and f.price_date <= hi *)
SelectRange(rows, lo, hi) ==
    {r \in rows : StrLeq(lo, DateToString(r[1])) /\ StrLeq(DateToString(r[1]), hi)}

(* Python list indexing: k in -len..len-1 is valid, negative k counts from the end *)
InRange(list, k) == (0 - Len(list)) <= k /\ k <= Len(list) - 1

PyIndex(list, k) == IF k >= 0 THEN list[k + 1] ELSE list[Len(list) + k + 1]

(* a DataFrame whose limit is not applied *)
LimitIgnored(rows, k) == rows

(* DataFrame.limit(k) for the k the notebook uses *)
Limit(rows, k) == IF k = 0 THEN {} ELSE rows

Table == storage.rows

(* ---------------- initial state ---------------- *)

InitWith(daysSet) ==
    /\ \E ds \in SUBSET Dates : source = RowsOfDates(ds)
    /\ storage \in PriorStorages
    /\ metastore \in BOOLEAN
    /\ prior = storage
    /\ datelist = <<>>
    /\ datelist_len = 0
    /\ daysAtOnce \in daysSet
    /\ i = 0
    /\ price_date_min = NoDate
    /\ price_date_max = NoDate
    /\ pc = "rm"
    /\ inserted = <<>>
    /\ printed = <<>>
    /\ slept = 0

Init == InitWith(1..MaxDaysAtOnce)

InitCfg == InitWith(MinDaysAtOnce..MaxDaysAtOnce)

loopVars == <<datelist, datelist_len, i, price_date_min, price_date_max,
              inserted, printed, slept>>

(* ---------------- bootstrap of the price table ---------------- *)

(* dbutils.fs.rm(deltaPricePath, recurse=True) *)
RemoveStorage ==
    /\ pc = "rm"
    /\ storage' = Absent
    /\ pc' = "save"
    /\ UNCHANGED <<source, metastore, prior, daysAtOnce, loopVars>>

(* spark.read.parquet(parquetPricePath).limit(0) written with mode overwrite *)
SaveEmpty ==
    /\ pc = "save"
    /\ storage' = [exists |-> TRUE, schema |-> SourceSchema, rows |-> SetToBag(Limit(source, 0))]
    /\ pc' = "drop"
    /\ UNCHANGED <<source, metastore, prior, daysAtOnce, loopVars>>

(* DROP TABLE IF EXISTS stockDailyPrices_delta: the table is external, its files stay *)
DropTable ==
    /\ pc = "drop"
    /\ metastore' = FALSE
    /\ pc' = "create"
    /\ UNCHANGED <<source, storage, prior, daysAtOnce, loopVars>>

(* CREATE TABLE stockDailyPrices_delta USING DELTA LOCATION deltaPricePath *)
CreateTable ==
    /\ pc = "create"
    /\ ~metastore
    /\ storage.exists
    /\ metastore' = TRUE
    /\ pc' = "datelist"
    /\ UNCHANGED <<source, storage, prior, daysAtOnce, loopVars>>

(* ---------------- the replay ---------------- *)

(* datelist = the distinct price_date values, ascending *)
LoadDatelist ==
    /\ pc = "datelist"
    /\ datelist' = SortedDistinct(DistinctDates(source))
    /\ prior' = Absent
    /\ pc' = "setup"
    /\ UNCHANGED <<source, storage, metastore, daysAtOnce, datelist_len, i,
                   price_date_min, price_date_max, inserted, printed, slept>>

(* the loop bound taken as len(datelist) *)
LoopInitFullLength ==
    /\ pc = "setup"
    /\ datelist_len' = Len(datelist)
    /\ i' = 0
    /\ pc' = "while"
    /\ UNCHANGED <<source, storage, metastore, prior, daysAtOnce, datelist,
                   price_date_min, price_date_max, inserted, printed, slept>>

(* datelist_len = len(datelist) - 1; i = 0 *)
LoopInit ==
    /\ pc = "setup"
    /\ datelist_len' = Len(datelist) - 1
    /\ i' = 0
    /\ pc' = "while"
    /\ UNCHANGED <<source, storage, metastore, prior, daysAtOnce, datelist,
                   price_date_min, price_date_max, inserted, printed, slept>>

(* the loop condition written i <= datelist_len *)
LoopEnterInclusive ==
    /\ pc = "while"
    /\ i <= datelist_len
    /\ Len(inserted) < MaxBatches
    /\ pc' = "span"
    /\ UNCHANGED <<source, storage, metastore, prior, daysAtOnce, loopVars>>

(* while (i < datelist_len): condition true *)
LoopEnter ==
    /\ pc = "while"
    /\ i < datelist_len
    /\ Len(inserted) < MaxBatches
    /\ pc' = "span"
    /\ UNCHANGED <<source, storage, metastore, prior, daysAtOnce, loopVars>>

(* while (i < datelist_len): condition false *)
LoopExit ==
    /\ pc = "while"
    /\ ~(i < datelist_len)
    /\ pc' = "done"
    /\ UNCHANGED <<source, storage, metastore, prior, daysAtOnce, loopVars>>

(* price_date_min = datelist[i]; price_date_max = datelist[i+daysAtOnce-1] *)
SpanOk ==
    /\ pc = "span"
    /\ InRange(datelist, i)
    /\ InRange(datelist, i + daysAtOnce - 1)
    /\ price_date_min' = PyIndex(datelist, i)
    /\ price_date_max' = PyIndex(datelist, i + daysAtOnce - 1)
    /\ pc' = "insert"
    /\ UNCHANGED <<source, storage, metastore, prior, daysAtOnce, datelist,
                   datelist_len, i, inserted, printed, slept>>

(* either subscript out of range: IndexError leaves the loop and the cell *)
SpanIndexError ==
    /\ pc = "span"
    /\ ~(InRange(datelist, i) /\ InRange(datelist, i + daysAtOnce - 1))
    /\ price_date_min' = IF InRange(datelist, i) THEN PyIndex(datelist, i)
                         ELSE price_date_min
    /\ pc' = "IndexError"
    /\ UNCHANGED <<source, storage, metastore, prior, daysAtOnce, datelist,
                   datelist_len, i, price_date_max, inserted, printed, slept>>

(* spark.sql(insert_sql) succeeds: one atomic append of the selected rows *)
InsertOk ==
    /\ pc = "insert"
    /\ metastore
    /\ storage.exists
    /\ storage' = [storage EXCEPT !.rows =
                     @ (+) SetToBag(SelectRange(source, Strftime(price_date_min),
                                                Strftime(price_date_max)))]
    /\ inserted' = Append(inserted, <<price_date_min, price_date_max>>)
    /\ pc' = "print"
    /\ UNCHANGED <<source, metastore, prior, daysAtOnce, datelist, datelist_len,
                   i, price_date_min, price_date_max, printed, slept>>

(* a failed insert whose progress line is printed all the same *)
InsertFailNotifies ==
    /\ pc = "insert"
    /\ printed' = Append(printed, <<price_date_min, price_date_max>>)
    /\ pc' = "AppendFailed"
    /\ UNCHANGED <<source, storage, metastore, prior, daysAtOnce, datelist,
                   datelist_len, i, price_date_min, price_date_max, inserted, slept>>

(* spark.sql(insert_sql) raises: nothing is appended, the exception leaves the loop *)
InsertFail ==
    /\ pc = "insert"
    /\ pc' = "AppendFailed"
    /\ UNCHANGED <<source, storage, metastore, prior, daysAtOnce, loopVars>>

(* print('... min: [%s], max: [%s]') *)
PrintProgress ==
    /\ pc = "print"
    /\ printed' = Append(printed, <<price_date_min, price_date_max>>)
    /\ pc' = "advance"
    /\ UNCHANGED <<source, storage, metastore, prior, daysAtOnce, datelist,
                   datelist_len, i, price_date_min, price_date_max, inserted, slept>>

(* the cursor advance followed by no sleep *)
AdvanceNoSleep ==
    /\ pc = "advance"
    /\ i' = i + daysAtOnce
    /\ pc' = "while"
    /\ UNCHANGED <<source, storage, metastore, prior, daysAtOnce, datelist,
                   datelist_len, price_date_min, price_date_max, inserted,
                   printed, slept>>

(* i = i + daysAtOnce *)
Advance ==
    /\ pc = "advance"
    /\ i' = i + daysAtOnce
    /\ pc' = "sleep"
    /\ UNCHANGED <<source, storage, metastore, prior, daysAtOnce, datelist,
                   datelist_len, price_date_min, price_date_max, inserted,
                   printed, slept>>

(* time.sleep(7) *)
Sleep ==
    /\ pc = "sleep"
    /\ slept' = slept + SleepSeconds
    /\ pc' = "while"
    /\ UNCHANGED <<source, storage, metastore, prior, daysAtOnce, datelist,
                   datelist_len, i, price_date_min, price_date_max, inserted,
                   printed>>

(* the notebook is run again from its first cell; the files and the metastore persist *)
Rerun ==
    /\ pc \in {"datelist", "done", "IndexError", "AppendFailed"}
    /\ prior' = storage
    /\ datelist' = <<>>
    /\ datelist_len' = 0
    /\ i' = 0
    /\ price_date_min' = NoDate
    /\ price_date_max' = NoDate
    /\ inserted' = <<>>
    /\ printed' = <<>>
    /\ slept' = 0
    /\ pc' = "rm"
    /\ UNCHANGED <<source, storage, metastore, daysAtOnce>>

Next ==
    \/ RemoveStorage
    \/ SaveEmpty
    \/ DropTable
    \/ CreateTable
    \/ LoadDatelist
    \/ LoopInit
    \/ LoopEnter
    \/ LoopExit
    \/ SpanOk
    \/ SpanIndexError
    \/ InsertOk
    \/ InsertFail
    \/ PrintProgress
    \/ Advance
    \/ Sleep
    \/ Rerun

Spec == Init /\ [][Next]_vars

SpecCfg == InitCfg /\ [][Next]_vars

(* ---------------- vocabulary of the properties ---------------- *)

KeySet == {r[1] : r \in source}

n == Cardinality(KeySet)

(* keys[k], counted from 0 *)
KeyAt(k) == CHOOSE d \in KeySet : Cardinality({e \in KeySet : e < d}) = k

LastKey == KeyAt(n - 1)

Ceil(a, b) == (a + b - 1) \div b

Smaller(a, b) == IF a <= b THEN a ELSE b

ReplayPcs == {"setup", "while", "span", "insert", "print", "advance", "sleep",
              "done", "IndexError", "AppendFailed"}

BodyPcs == {"span", "insert", "print", "advance", "sleep"}

InWindows(d) == \E k \in 1..Len(inserted) : inserted[k][1] <= d /\ d <= inserted[k][2]

RECURSIVE RowsOfBatches(_)
RowsOfBatches(ws) ==
    IF ws = <<>> THEN EmptyBag
    ELSE SetToBag({r \in source : ws[1][1] <= r[1] /\ r[1] <= ws[1][2]})
         (+) RowsOfBatches(Tail(ws))

SameBag(a, b) == \A r \in BagToSet(a) \cup BagToSet(b) : CopiesIn(r, a) = CopiesIn(r, b)

(* C1: during a replay with daysAtOnce >= 1 that started from the empty table,
   the table holds each source row whose date lies in the window of an
   inserted batch exactly once, and holds nothing else *)
C1_TableIsInsertedWindows ==
    pc \in ReplayPcs =>
        /\ BagToSet(Table) \subseteq source
        /\ \A r \in source : CopiesIn(r, Table) = IF InWindows(r[1]) THEN 1 ELSE 0

C1_Witness ==
    /\ pc = "while"
    /\ Len(inserted) = 2
    /\ daysAtOnce = 2
    /\ \E r \in source : CopiesIn(r, Table) = 0
    /\ \E r \in source : CopiesIn(r, Table) = 1 /\ r[1] >= 10

(* C2: for every n and every daysAtOnce >= 1 the loop runs to completion and
   inserts ceil((n-1)/daysAtOnce) batches when n > 1 and none when n <= 1 *)
C2_BatchCount ==
    /\ pc # "IndexError"
    /\ pc = "done" =>
          Len(inserted) = IF n > 1 THEN Ceil(n - 1, daysAtOnce) ELSE 0

(* C3: in every iteration the upper end of the window is
   keys[min(i + daysAtOnce - 1, n - 1)], read at an index within 0..n-1, so
   that no iteration stops with an index out of range *)
C3_ClampedWindow ==
    /\ pc = "span" => ENABLED SpanOk
    /\ pc = "insert" =>
          price_date_max = KeyAt(Smaller(i + daysAtOnce - 1, n - 1))

(* C4: when a replay over n > 1 dates has run to its end, the table holds every
   source row of keys[0]..keys[n-2], and holds the rows of keys[n-1] exactly
   when the window of a batch that starts before keys[n-1] reaches it *)
C4_FinalTable ==
    (pc = "done" /\ n > 1) =>
        \A r \in source :
            /\ r[1] # LastKey => CopiesIn(r, Table) >= 1
            /\ r[1] = LastKey =>
                 (CopiesIn(r, Table) >= 1 <=>
                    \E k \in 1..Len(inserted) :
                        inserted[k][1] < LastKey /\ inserted[k][2] >= LastKey)

C4_Witness ==
    /\ pc = "done"
    /\ n = 10
    /\ daysAtOnce = 3
    /\ Len(inserted) = 3
    /\ \A r \in source : r[1] = LastKey => CopiesIn(r, Table) = 0
    /\ \A r \in source : r[1] # LastKey => CopiesIn(r, Table) = 1

(* C5: with daysAtOnce >= 1 batches are inserted in strictly ascending date
   order: a later batch
   starts after the start and not before the end of every earlier batch, and
   the table is the union of the batches inserted so far *)
C5_AscendingBatches ==
    pc \in ReplayPcs =>
        /\ \A k \in 1..Len(inserted) : inserted[k][1] <= inserted[k][2]
        /\ \A j, k \in 1..Len(inserted) :
              j < k => /\ inserted[j][1] < inserted[k][1]
                       /\ inserted[k][1] >= inserted[j][2]
        /\ SameBag(Table, RowsOfBatches(inserted))

C5_Witness ==
    /\ pc = "print"
    /\ Len(inserted) = 3
    /\ inserted[3][1] > inserted[2][2]
    /\ inserted[1][1] < inserted[1][2]

(* C6: when the insert of batch k raises, the run stops there: the cursor still
   points at batch k, no progress line is printed for it, the table holds the
   rows of batches 1..k-1 only, and the only step left is a new run of the
   notebook, which inserts nothing *)
C6_AppendFailureHalts ==
    /\ [](pc = "AppendFailed" =>
            /\ i = daysAtOnce * Len(inserted)
            /\ price_date_min = KeyAt(i)
            /\ printed = inserted
            /\ slept = SleepSeconds * Len(inserted)
            /\ ~InWindows(price_date_min)
            /\ SameBag(Table, RowsOfBatches(inserted)))
    /\ [][pc = "AppendFailed" => (pc' = "rm" /\ storage' = storage)]_vars

C6_Witness ==
    /\ pc = "AppendFailed"
    /\ Len(inserted) = 1
    /\ daysAtOnce = 3
    /\ n >= 8
    /\ BagCardinality(Table) > 0

(* C7: with daysAtOnce <= 0 the run fails before the table is touched: the
   loop body is never entered and no batch is inserted *)
C7_InvalidConfiguration ==
    daysAtOnce <= 0 =>
        /\ pc \notin BodyPcs
        /\ pc \in ReplayPcs => (inserted = <<>> /\ BagToSet(Table) = {})

(* C8: with 0 or 1 distinct dates and daysAtOnce >= 1 the loop body never
   runs: nothing is read from datelist, nothing is inserted, the table stays
   empty and the loop ends normally *)
C8_ShortSourceNoBatch ==
    /\ []((n <= 1 /\ pc \in ReplayPcs) =>
            /\ pc \in {"setup", "while", "done"}
            /\ inserted = <<>>
            /\ printed = <<>>
            /\ price_date_min = NoDate
            /\ price_date_max = NoDate
            /\ BagToSet(Table) = {})
    /\ [][(n <= 1 /\ pc = "while") => pc' = "done"]_vars

C8_Witness ==
    /\ pc = "done"
    /\ n = 1
    /\ Cardinality(source) = 2
    /\ daysAtOnce = 3

(* C9: whatever lay at the price path before, the bootstrap leaves the empty
   table with the source schema, registered in the metastore; run on its own
   result it gives that result again *)
C9_BootstrapIdempotent ==
    pc = "datelist" =>
        /\ storage.exists
        /\ storage.schema = SourceSchema
        /\ BagToSet(storage.rows) = {}
        /\ metastore
        /\ (prior.exists /\ prior.schema = SourceSchema /\ BagToSet(prior.rows) = {})
              => storage = prior

C9_Witness ==
    /\ pc = "datelist"
    /\ prior.exists
    /\ prior.schema = SourceSchema
    /\ BagCardinality(prior.rows) >= 4

(* C10: the steps of a batch happen in the order insert, print, advance,
   sleep; every inserted batch is followed by one sleep, and the next insert
   starts only when the sleep of the one before is over *)
C10_SequentialSteps ==
    /\ pc \in {"setup", "while", "span", "insert", "done", "IndexError", "AppendFailed"} =>
          /\ Len(printed) = Len(inserted)
          /\ slept = SleepSeconds * Len(inserted)
          /\ i = daysAtOnce * Len(inserted)
    /\ pc = "print" =>
          /\ Len(inserted) >= 1
          /\ Len(printed) = Len(inserted) - 1
          /\ slept = SleepSeconds * (Len(inserted) - 1)
          /\ i = daysAtOnce * (Len(inserted) - 1)
    /\ pc = "advance" =>
          /\ Len(inserted) >= 1
          /\ printed = inserted
          /\ slept = SleepSeconds * (Len(inserted) - 1)
          /\ i = daysAtOnce * (Len(inserted) - 1)
    /\ pc = "sleep" =>
          /\ Len(inserted) >= 1
          /\ printed = inserted
          /\ slept = SleepSeconds * (Len(inserted) - 1)
          /\ i = daysAtOnce * Len(inserted)

C10_Witness ==
    /\ pc = "done"
    /\ Len(inserted) = 4
    /\ slept = 4 * SleepSeconds
    /\ printed = inserted

====
